---- MODULE Spec2Model ----
(***************************************************************************)
(* TFTP client of KyGit25/NSCOM-MP-GROUP5-.                                *)
(*                                                                         *)
(* One transfer session of the client, from the request to the end of      *)
(* receive_file / send_file.  The client is a single sequential thread     *)
(* that blocks in sock.recvfrom: every action below is one return of       *)
(* recvfrom (a datagram or socket.timeout) together with all the code the  *)
(* client runs until it blocks in recvfrom again or leaves the function.   *)
(* The server and the network are the environment: they choose what each   *)
(* recvfrom returns.                                                       *)
(*                                                                         *)
(* Payload bytes are kept as [id, len]: len is the number of bytes, id     *)
(* names the content (download: the index of the delivery that carried     *)
(* it; upload: the offset of the chunk in the source file).                *)
(***************************************************************************)
EXTENDS Integers, Sequences, FiniteSets, TLC

VARIABLES
    impl,          \* which program runs: "client_operations" | "oack_implementation"
    op,            \* "none" | "download" | "upload"
    pc,            \* "Idle" | "AwaitingNegotiation" | "Transferring" | "Complete" | "Aborted"
    cause,         \* why the session left its function early
    blocksize,     \* local blocksize of receive_file / send_file
    tsize,         \* tsize returned by handle_oack (None = NoneVal)
    block_number,  \* local block_number
    retries,       \* local retries
    tmp,           \* <filename>.tmp exists
    sink,          \* payloads written to the temporary file, in order
    written,       \* block numbers of those payloads, in order
    dest,          \* the destination file: [exists, data]
    srcSize,       \* size of the source file of an upload
    srcPos,        \* read position of the open source file
    data_block,    \* chunk last read from the source: [id, len]
    log,           \* every datagram sent, every datagram received and every timeout, in order
    nrx,           \* number of recvfrom returns so far
    junk,          \* number of received datagrams the client neither accepted nor died of
    earlier        \* datagrams the socket received during the operations that came before

vars == <<impl, op, pc, cause, blocksize, tsize, block_number, retries, tmp, sink,
          written, dest, srcSize, srcPos, data_block, log, nrx, junk, earlier>>

----------------------------------------------------------------------------
(* Program constants *)

TFTP_PORT == 69
OPCODE_RRQ == 1
OPCODE_WRQ == 2
OPCODE_DATA == 3
OPCODE_ACK == 4
OPCODE_ERROR == 5
OPCODE_OACK == 6
BLOCK_SIZE == 512
MAX_RETRIES == 5
OACK_MAX_RETRIES == 3

(* Bounds of the model *)

MaxRx == 7        \* recvfrom returns (datagrams and timeouts) in one session
MaxJunk == 1      \* datagrams of a session that the client ignores
MaxBlocks == 2    \* highest block number the server puts in a Data packet

NoneVal == 0 - 1  \* Python's None for tsize

Min(a, b) == IF a < b THEN a ELSE b

----------------------------------------------------------------------------
(* Datagrams *)

\* the peer addresses: (server_ip, TFTP_PORT) and the server's transfer port
WellKnown == "port69"
ServerTid == "tid"

Tok(t, v, n) == [txt |-> t, num |-> v, n |-> n]
KeyBlksize == Tok("blksize", NoneVal, 7)
KeyTsize == Tok("tsize", NoneVal, 5)

RECURSIVE Digits(_)
Digits(v) == IF v < 10 THEN 1 ELSE 1 + Digits(v \div 10)

\* str(v).encode()
NumTok(v) == Tok("", v, Digits(v))

RECURSIVE OptBytes(_)
OptBytes(opts) ==
    IF opts = <<>> THEN 0 ELSE Head(opts).n + 1 + OptBytes(Tail(opts))

Packet(opcode, block, id, len, opts, size, addr) ==
    [opcode |-> opcode, block |-> block, id |-> id, len |-> len,
     opts |-> opts, size |-> size, addr |-> addr]

NoPacket == Packet(0, 0, 0, 0, <<>>, 0, "")

Data(block, id, len, addr) == Packet(OPCODE_DATA, block, id, len, <<>>, 4 + len, addr)
Ack(block, addr) == Packet(OPCODE_ACK, block, 0, 0, <<>>, 4, addr)
Error(code, addr) == Packet(OPCODE_ERROR, code, 0, 0, <<>>, 5, addr)
Oack(opts, addr) == Packet(OPCODE_OACK, 0, 0, 0, opts, 2 + OptBytes(opts), addr)
\* a datagram of n < 4 bytes; with n >= 2 its first two bytes are an opcode
Runt(opcode, n, addr) == Packet(IF n >= 2 THEN opcode ELSE 0, 0, 0, 0, <<>>, n, addr)

Tx(p) == [ev |-> "tx", pkt |-> p]
Rx(p) == [ev |-> "rx", pkt |-> p]
Timeout == [ev |-> "timeout", pkt |-> NoPacket]

----------------------------------------------------------------------------
(* Python truthiness of an int-or-None *)
Truthy(v) == v # NoneVal /\ v # 0

(* send_request: the request datagram, always addressed to port 69.  Its   *)
(* size leaves out the filename and the mode, which nothing reads.        *)
send_request(opcode, bs, ts) ==
    LET o1 == IF Truthy(bs) THEN <<KeyBlksize, NumTok(bs)>> ELSE <<>>
        o2 == IF Truthy(ts) /\ opcode = OPCODE_WRQ THEN <<KeyTsize, NumTok(ts)>> ELSE <<>>
    IN  Tx(Packet(opcode, 0, 0, 0, o1 \o o2, 2 + OptBytes(o1 \o o2), WellKnown))

(* str.lower() on an option name *)
Lower(t) ==
    CASE t = "BLKSIZE" -> "blksize"
      [] t = "TSIZE" -> "tsize"
      [] OTHER -> t

\* the blksize option of the OACK is not taken
ParseOptions_IgnoresBlksize(options, i, bs, ts) ==
    [raised |-> FALSE, blocksize |-> bs, tsize |-> ts]

(* handle_oack, lines 76-86: the loop over the non-empty tokens of the OACK, *)
(* two at a time.  options[i+1] past the end raises IndexError and int() of  *)
(* a token that is no number raises ValueError.                              *)
RECURSIVE ParseOptions(_, _, _, _)
ParseOptions(options, i, bs, ts) ==
    IF i > Len(options) THEN [raised |-> FALSE, blocksize |-> bs, tsize |-> ts]
    ELSE IF Lower(options[i].txt) \in {"blksize", "tsize"}
         THEN IF i + 1 > Len(options) \/ options[i + 1].num = NoneVal
              THEN [raised |-> TRUE, blocksize |-> bs, tsize |-> ts]
              ELSE IF Lower(options[i].txt) = "blksize"
                   THEN ParseOptions(options, i + 2, options[i + 1].num, ts)
                   ELSE ParseOptions(options, i + 2, bs, options[i + 1].num)
         ELSE ParseOptions(options, i + 2, bs, ts)

\* the OACK is parsed but not acknowledged
handle_oack_NoAck(ev, bs) ==
    LET r == ParseOptions(ev.pkt.opts, 1, bs, NoneVal)
    IN  IF ev.ev = "rx" /\ ev.pkt.size >= 2 /\ ev.pkt.opcode = OPCODE_OACK
        THEN [raised |-> r.raised, blocksize |-> r.blocksize, tsize |-> r.tsize, out |-> <<>>]
        ELSE [raised |-> ev.ev = "rx" /\ ev.pkt.size < 2, blocksize |-> bs,
              tsize |-> NoneVal, out |-> <<>>]

(* handle_oack on what recvfrom returned: the values it returns, the         *)
(* datagrams it sends, and whether an exception other than socket.timeout    *)
(* left it.                                                                  *)
handle_oack(ev, bs) ==
    IF ev.ev = "timeout"
      THEN [raised |-> FALSE, blocksize |-> bs, tsize |-> NoneVal, out |-> <<>>]
    ELSE IF ev.pkt.size < 2
      THEN [raised |-> TRUE, blocksize |-> bs, tsize |-> NoneVal, out |-> <<>>]
    ELSE IF ev.pkt.opcode = OPCODE_OACK
      THEN LET r == ParseOptions(ev.pkt.opts, 1, bs, NoneVal)
           IN  [raised |-> r.raised, blocksize |-> r.blocksize, tsize |-> r.tsize,
                out |-> IF r.raised THEN <<>> ELSE <<Tx(Ack(0, ev.pkt.addr))>>]
    ELSE [raised |-> FALSE, blocksize |-> bs, tsize |-> NoneVal, out |-> <<>>]

----------------------------------------------------------------------------
(* What the environment can make a recvfrom return *)

ShortLen == 200
RequestedBlocksizes == {512, 1024}
OackOptions == { <<>>, <<KeyBlksize, NumTok(1024)>> }
SourceSizes == {0, 200, 512, 1024}

\* payload lengths of a Data packet: empty, short, full
DataLens(bs) == {l \in {0, ShortLen, bs} : l <= bs}

\* the first datagram after the request (or no datagram at all)
FirstResponses(dir) ==
    {Timeout}
    \cup {Rx(Oack(o, ServerTid)) : o \in OackOptions}
    \cup (IF dir = "download" THEN {Rx(Data(1, 1, ShortLen, ServerTid))}
                              ELSE {Rx(Ack(0, ServerTid))})
    \cup {Rx(Error(1, ServerTid)), Rx(Runt(0, 1, ServerTid))}

\* Data packets for the expected block
ExpectedData == {Rx(Data(block_number, nrx + 1, l, ServerTid)) : l \in DataLens(blocksize)}

\* Data packets for the block before and the block after the expected one
OtherData ==
    {Rx(Data(k, nrx + 1, blocksize, ServerTid)) :
        k \in {block_number - 1, block_number + 1} \cap 1..MaxBlocks}

\* a datagram a download does not expect at all: a second OACK
StrayPackets == {Rx(Oack(<<KeyBlksize, NumTok(1024)>>, ServerTid))}

\* sock.recvfrom(bufsize): a datagram longer than the buffer loses its tail
recvfrom(p, bufsize) ==
    IF p.size > bufsize THEN [p EXCEPT !.size = bufsize, !.len = IF bufsize > 4 THEN bufsize - 4 ELSE 0]
    ELSE p

NoFile == [exists |-> FALSE, data |-> <<>>]
NoChunk == [id |-> 0, len |-> 0]

----------------------------------------------------------------------------
Init ==
    /\ impl \in {"client_operations", "oack_implementation"}
    /\ op = "none"
    /\ pc = "Idle"
    /\ cause = "none"
    /\ blocksize = BLOCK_SIZE
    /\ tsize = NoneVal
    /\ block_number = 0
    /\ retries = 0
    /\ tmp = FALSE
    /\ sink = <<>>
    /\ written = <<>>
    /\ dest = NoFile
    /\ srcSize = 0
    /\ srcPos = 0
    /\ data_block = NoChunk
    /\ log = <<>>
    /\ nrx = 0
    /\ junk = 0
    /\ earlier = <<>>

----------------------------------------------------------------------------
(* client_operations: download *)

\* the block number is not compared
IsExpectedData_AnyBlock(opcode, recv_block_number, bn) ==
    opcode = OPCODE_DATA

\* a Data packet for an earlier block is accepted too
IsExpectedData_Lower(opcode, recv_block_number, bn) ==
    opcode = OPCODE_DATA /\ recv_block_number <= bn

(* line 148: the Data packet receive_file accepts *)
IsExpectedData(opcode, recv_block_number, bn) ==
    opcode = OPCODE_DATA /\ recv_block_number = bn

\* a full block ends the download
IsLastBlock_Inclusive(len, bs) == len <= bs

(* line 158: the last block of a download *)
IsLastBlock(len, bs) == len < bs

\* one timeout too many is allowed
RetriesReached_OffByOne(r) == r > MAX_RETRIES

\* the ceiling is never reached
RetriesReached_Never(r) == FALSE

(* line 167 / line 251 *)
RetriesReached(r) == r >= MAX_RETRIES

(* operations_proper, lines 319-322 and receive_file, lines 110-113:       *)
(* the read request goes out and receive_file blocks in handle_oack.       *)
operations_proper_RRQ(blksize) ==
    /\ impl = "client_operations"
    /\ pc = "Idle"
    /\ op' = "download"
    /\ log' = <<send_request(OPCODE_RRQ, blksize, NoneVal)>>
    /\ block_number' = 1
    /\ retries' = 0
    /\ blocksize' = BLOCK_SIZE
    /\ pc' = "AwaitingNegotiation"
    /\ UNCHANGED <<impl, earlier, cause, tsize, tmp, sink, written, dest,
                   srcSize, srcPos, data_block, nrx, junk>>

(* receive_file, lines 116-127: handle_oack returns (or raises), then the  *)
(* temporary file is opened and the block loop blocks in recvfrom.         *)
receive_file_negotiate(ev) ==
    /\ impl = "client_operations" /\ op = "download"
    /\ pc = "AwaitingNegotiation"
    /\ LET e == IF ev.ev = "rx" THEN Rx(recvfrom(ev.pkt, 4 + BLOCK_SIZE)) ELSE ev
           r == handle_oack(e, blocksize)
       IN  /\ log' = (log \o <<e>>) \o r.out
           /\ nrx' = nrx + 1
           /\ IF r.raised
              THEN /\ pc' = "Aborted"
                   /\ cause' = "exception"
                   /\ UNCHANGED <<blocksize, tsize, tmp, sink>>
              ELSE /\ blocksize' = r.blocksize
                   /\ tsize' = r.tsize
                   /\ tmp' = TRUE
                   /\ sink' = <<>>
                   /\ pc' = "Transferring"
                   /\ UNCHANGED cause
    /\ UNCHANGED <<impl, earlier, op, block_number, retries, written, dest,
                   srcSize, srcPos, data_block, junk>>

(* receive_file, lines 161-174: socket.timeout in the block loop *)
receive_file_timeout ==
    /\ impl = "client_operations" /\ op = "download"
    /\ pc = "Transferring"
    /\ nrx < MaxRx
    /\ nrx' = nrx + 1
    /\ retries' = retries + 1
    /\ IF RetriesReached(retries')
       THEN /\ tmp' = FALSE
            /\ sink' = <<>>
            /\ pc' = "Aborted"
            /\ cause' = "retries"
            /\ log' = Append(log, Timeout)
       ELSE /\ log' = log \o <<Timeout, send_request(OPCODE_RRQ, blocksize, NoneVal)>>
            /\ UNCHANGED <<tmp, sink, pc, cause>>
    /\ UNCHANGED <<impl, earlier, op, blocksize, tsize, block_number, written, dest,
                   srcSize, srcPos, data_block, junk>>

(* receive_file, lines 133-160 and 176-182: recvfrom returns a datagram *)
receive_file_recv(ev, write_ok) ==
    /\ impl = "client_operations" /\ op = "download"
    /\ pc = "Transferring"
    /\ nrx < MaxRx
    /\ nrx' = nrx + 1
    /\ LET p == recvfrom(ev.pkt, 4 + blocksize)
       IN
       IF p.size < 4
       THEN \* struct.error, caught at line 176: the file is closed, not removed
            /\ pc' = "Aborted"
            /\ cause' = "exception"
            /\ log' = Append(log, Rx(p))
            /\ UNCHANGED <<block_number, retries, tmp, sink, written, dest, junk>>
       ELSE IF p.opcode = OPCODE_ERROR
       THEN /\ tmp' = FALSE
            /\ sink' = <<>>
            /\ pc' = "Aborted"
            /\ cause' = "error"
            /\ log' = Append(log, Rx(p))
            /\ UNCHANGED <<block_number, retries, written, dest, junk>>
       ELSE IF IsExpectedData(p.opcode, p.block, block_number)
       THEN IF ~write_ok
            THEN \* f.write raises OSError, caught at line 176
                 /\ pc' = "Aborted"
                 /\ cause' = "exception"
                 /\ log' = Append(log, Rx(p))
                 /\ UNCHANGED <<block_number, retries, tmp, sink, written, dest, junk>>
            ELSE /\ written' = Append(written, p.block)
                 /\ log' = log \o <<Rx(p), Tx(Ack(block_number, p.addr))>>
                 /\ block_number' = block_number + 1
                 /\ retries' = 0
                 /\ IF IsLastBlock(p.len, blocksize)
                    THEN \* break, then os.rename(temp_filename, filename)
                         /\ dest' = [exists |-> TRUE, data |-> Append(sink, [id |-> p.id, len |-> p.len])]
                         /\ tmp' = FALSE
                         /\ sink' = <<>>
                         /\ pc' = "Complete"
                    ELSE /\ sink' = Append(sink, [id |-> p.id, len |-> p.len])
                         /\ UNCHANGED <<tmp, dest, pc>>
                 /\ UNCHANGED <<cause, junk>>
       ELSE \* any other datagram: nothing happens
            /\ junk < MaxJunk
            /\ junk' = junk + 1
            /\ log' = Append(log, Rx(p))
            /\ UNCHANGED <<block_number, retries, tmp, sink, written, dest, pc, cause>>
    /\ UNCHANGED <<impl, earlier, op, blocksize, tsize, srcSize, srcPos, data_block>>

DownloadPackets ==
    ExpectedData \cup OtherData \cup StrayPackets
    \cup {Rx(Error(1, ServerTid)), Rx(Runt(OPCODE_DATA, 3, ServerTid))}

\* a datagram of the download loop and whether f.write succeeds on it
DownloadInputs ==
    (DownloadPackets \X {TRUE})
    \cup {<<Rx(Data(block_number, nrx + 1, blocksize, ServerTid)), FALSE>>}

----------------------------------------------------------------------------
(* client_operations: upload *)

(* the largest value of a block number field, format 'H' of struct *)
MaxBlockNumber == 65535

(* struct.pack('!HH', opcode, v) raises struct.error unless 0 <= v <= 65535 *)
FitsH(v) == v \in 0..MaxBlockNumber

(* f.read(bs) at position pos of a file of size bytes *)
read(pos, size, bs) == [id |-> pos, len |-> Min(bs, size - pos)]

\* any Acknowledgment is taken for the current block's
IsExpectedAck_AnyBlock(opcode, ack_block, bn) == opcode = OPCODE_ACK

(* line 238: the Acknowledgment send_file waits for *)
IsExpectedAck(opcode, ack_block, bn) ==
    opcode = OPCODE_ACK /\ ack_block = bn

\* a full chunk ends the upload: no empty terminal block
IsLastChunk_Inclusive(len, bs) == len <= bs

(* line 260: the last block of an upload *)
IsLastChunk(len, bs) == len < bs

(* line 219 / line 257: where send_file sends its Data packets *)
DataTarget(addr) == WellKnown

(* operations_proper, lines 313-326 and send_file, lines 195-200:          *)
(* the write request goes out and send_file blocks in handle_oack.         *)
operations_proper_WRQ(blksize, size) ==
    /\ impl = "client_operations"
    /\ pc = "Idle"
    /\ op' = "upload"
    /\ srcSize' = size
    /\ log' = <<send_request(OPCODE_WRQ, blksize, size)>>
    /\ blocksize' = BLOCK_SIZE
    /\ pc' = "AwaitingNegotiation"
    /\ UNCHANGED <<impl, earlier, cause, tsize, block_number, retries, tmp, sink, written, dest,
                   srcPos, data_block, nrx, junk>>

(* send_file, lines 200-222: handle_oack returns (or raises), the source   *)
(* is opened, the first chunk is read and sent as Data block 1.            *)
send_file_negotiate(ev) ==
    /\ impl = "client_operations" /\ op = "upload"
    /\ pc = "AwaitingNegotiation"
    /\ LET e == IF ev.ev = "rx" THEN Rx(recvfrom(ev.pkt, 4 + BLOCK_SIZE)) ELSE ev
           r == handle_oack(e, BLOCK_SIZE)
           chunk == read(0, srcSize, r.blocksize)
       IN  /\ nrx' = nrx + 1
           /\ IF r.raised
              THEN /\ pc' = "Aborted"
                   /\ cause' = "exception"
                   /\ log' = (log \o <<e>>) \o r.out
                   /\ UNCHANGED <<blocksize, tsize, block_number, retries, srcPos, data_block>>
              ELSE /\ blocksize' = r.blocksize
                   /\ tsize' = r.tsize
                   /\ data_block' = chunk
                   /\ srcPos' = chunk.len
                   /\ block_number' = 1
                   /\ retries' = 0
                   /\ log' = (log \o <<e>>) \o r.out
                               \o <<Tx(Data(1, chunk.id, chunk.len, DataTarget(e.pkt.addr)))>>
                   /\ pc' = "Transferring"
                   /\ UNCHANGED cause
    /\ UNCHANGED <<impl, earlier, op, tmp, sink, written, dest, srcSize, junk>>

(* send_file, lines 245-257: socket.timeout while waiting for the ACK *)
send_file_timeout ==
    /\ impl = "client_operations" /\ op = "upload"
    /\ pc = "Transferring"
    /\ nrx < MaxRx
    /\ nrx' = nrx + 1
    /\ retries' = retries + 1
    /\ IF RetriesReached(retries')
       THEN /\ pc' = "Aborted"
            /\ cause' = "retries"
            /\ log' = Append(log, Timeout)
       ELSE /\ log' = log \o <<Timeout,
                       Tx(Data(block_number, data_block.id, data_block.len, DataTarget(ServerTid)))>>
            /\ UNCHANGED <<pc, cause>>
    /\ UNCHANGED <<impl, earlier, op, blocksize, tsize, block_number, tmp, sink, written, dest,
                   srcSize, srcPos, data_block, junk>>

(* send_file, lines 226-243 and 259-265: recvfrom returns a datagram *)
send_file_recv(ev) ==
    /\ impl = "client_operations" /\ op = "upload"
    /\ pc = "Transferring"
    /\ nrx < MaxRx
    /\ nrx' = nrx + 1
    /\ LET ack == recvfrom(ev.pkt, blocksize + 4)
           chunk == read(srcPos, srcSize, blocksize)
       IN
       /\ log' = IF /\ ack.size = 4
                    /\ ack.opcode # OPCODE_ERROR
                    /\ IsExpectedAck(ack.opcode, ack.block, block_number)
                    /\ ~IsLastChunk(data_block.len, blocksize)
                    /\ FitsH(block_number + 1)
                 THEN log \o <<Rx(ack),
                        Tx(Data(block_number + 1, chunk.id, chunk.len, DataTarget(ack.addr)))>>
                 ELSE Append(log, Rx(ack))
       /\ IF ack.size < 2
          THEN \* ack[1] raises IndexError, which leaves send_file
               /\ pc' = "Aborted"
               /\ cause' = "exception"
               /\ UNCHANGED <<block_number, retries, srcPos, data_block, junk>>
          ELSE IF ack.opcode = OPCODE_ERROR
          THEN IF ack.size < 4
               THEN \* struct.unpack('!H', ack[2:4]) raises struct.error
                    /\ pc' = "Aborted"
                    /\ cause' = "exception"
                    /\ UNCHANGED <<block_number, retries, srcPos, data_block, junk>>
               ELSE \* the message is printed and the loop waits for the next datagram
                    /\ junk < MaxJunk
                    /\ junk' = junk + 1
                    /\ UNCHANGED <<pc, cause, block_number, retries, srcPos, data_block>>
          ELSE IF ack.size # 4
          THEN \* struct.unpack('!HH', ack) raises struct.error
               /\ pc' = "Aborted"
               /\ cause' = "exception"
               /\ UNCHANGED <<block_number, retries, srcPos, data_block, junk>>
          ELSE IF IsExpectedAck(ack.opcode, ack.block, block_number)
          THEN IF IsLastChunk(data_block.len, blocksize)
               THEN /\ pc' = "Complete"
                    /\ UNCHANGED <<cause, block_number, retries, srcPos, data_block, junk>>
               ELSE IF ~FitsH(block_number + 1)
               THEN \* struct.pack('!HH', ...) at line 218 raises struct.error, which
                    \* leaves send_file and is caught in operations_proper
                    /\ data_block' = chunk
                    /\ srcPos' = srcPos + chunk.len
                    /\ block_number' = block_number + 1
                    /\ pc' = "Aborted"
                    /\ cause' = "exception"
                    /\ UNCHANGED <<retries, junk>>
               ELSE /\ data_block' = chunk
                    /\ srcPos' = srcPos + chunk.len
                    /\ block_number' = block_number + 1
                    /\ retries' = 0
                    /\ UNCHANGED <<pc, cause, junk>>
          ELSE \* "Unexpected packet received, ignoring..."
               /\ junk < MaxJunk
               /\ junk' = junk + 1
               /\ UNCHANGED <<pc, cause, block_number, retries, srcPos, data_block>>
    /\ UNCHANGED <<impl, earlier, op, blocksize, tsize, tmp, sink, written, dest, srcSize>>

UploadPackets ==
    {Rx(Ack(k, ServerTid)) : k \in {block_number - 1, block_number}}
    \cup {Rx(Error(1, ServerTid)), Rx(Data(1, nrx + 1, ShortLen, ServerTid)),
          Rx(Runt(0, 1, ServerTid))}

NextCO ==
    \/ \E b \in RequestedBlocksizes : operations_proper_RRQ(b)
    \/ \E ev \in FirstResponses("download") : receive_file_negotiate(ev)
    \/ receive_file_timeout
    \/ \E in \in DownloadInputs : receive_file_recv(in[1], in[2])
    \/ \E b \in RequestedBlocksizes, size \in SourceSizes : operations_proper_WRQ(b, size)
    \/ \E ev \in FirstResponses("upload") : send_file_negotiate(ev)
    \/ send_file_timeout
    \/ \E ev \in UploadPackets : send_file_recv(ev)

----------------------------------------------------------------------------
(* oack_implementation: download *)

RFC2348_MAX == 65464

(* process_oack, lines 72-78: split(b'\x00') keeps the empty string after  *)
(* the last terminator, so a key without a value is paired with '' and     *)
(* int('') raises ValueError.  Keys are compared as they are.              *)
RECURSIVE process_oack(_, _, _)
process_oack(options, i, bs) ==
    IF i > Len(options) THEN [raised |-> FALSE, blocksize |-> bs]
    ELSE IF options[i].txt = "blksize"
         THEN IF i + 1 > Len(options) \/ options[i + 1].num = NoneVal
              THEN [raised |-> TRUE, blocksize |-> bs]
              ELSE process_oack(options, i + 2, Min(options[i + 1].num, RFC2348_MAX))
         ELSE process_oack(options, i + 2, bs)

(* line 132: a Data packet receive_file calls a duplicate *)
oack_IsDuplicate(recv_block_number, bn) == recv_block_number < bn

(* line 136 *)
oack_IsExpected(recv_block_number, bn) == recv_block_number = bn

(* line 143 *)
oack_IsLastBlock(len, bs) == len < bs

(* line 150 *)
oack_RetriesReached(r) == r >= OACK_MAX_RETRIES

(* tftp_client, lines 265-268 and receive_file, lines 112-117: the read    *)
(* request goes out, the temporary file is opened, the loop blocks.        *)
tftp_client_get ==
    /\ impl = "oack_implementation"
    /\ pc = "Idle"
    /\ op' = "download"
    /\ log' = <<send_request(OPCODE_RRQ, blocksize, NoneVal)>>
    /\ block_number' = 1
    /\ retries' = 0
    /\ tmp' = TRUE
    /\ sink' = <<>>
    /\ pc' = "Transferring"
    /\ UNCHANGED <<impl, earlier, cause, blocksize, tsize, written, dest, srcSize, srcPos,
                   data_block, nrx, junk>>

(* receive_file, lines 147-154.  os.remove runs on the still open file,   *)
(* which POSIX allows.                                                   *)
oack_receive_file_timeout ==
    /\ impl = "oack_implementation" /\ op = "download"
    /\ pc = "Transferring"
    /\ nrx < MaxRx
    /\ nrx' = nrx + 1
    /\ retries' = retries + 1
    /\ IF oack_RetriesReached(retries')
       THEN /\ tmp' = FALSE
            /\ sink' = <<>>
            /\ pc' = "Aborted"
            /\ cause' = "retries"
            /\ log' = Append(log, Timeout)
       ELSE /\ log' = log \o <<Timeout, send_request(OPCODE_RRQ, blocksize, NoneVal)>>
            /\ UNCHANGED <<tmp, sink, pc, cause>>
    /\ UNCHANGED <<impl, earlier, op, blocksize, tsize, block_number, written, dest,
                   srcSize, srcPos, data_block, junk>>

(* receive_file, lines 120-145 and 156-161 *)
oack_receive_file_recv(ev, write_ok) ==
    /\ impl = "oack_implementation" /\ op = "download"
    /\ pc = "Transferring"
    /\ nrx < MaxRx
    /\ nrx' = nrx + 1
    /\ LET p == recvfrom(ev.pkt, 4 + blocksize)
           r == process_oack(p.opts, 1, blocksize)
       IN
       IF p.size < 2
       THEN \* struct.error, caught at line 156: the temporary file stays
            /\ pc' = "Aborted"
            /\ cause' = "exception"
            /\ log' = Append(log, Rx(p))
            /\ UNCHANGED <<blocksize, block_number, retries, tmp, sink, written, dest, junk>>
       ELSE IF p.opcode = OPCODE_OACK
       THEN IF r.raised
            THEN /\ pc' = "Aborted"
                 /\ cause' = "exception"
                 /\ log' = Append(log, Rx(p))
                 /\ UNCHANGED <<blocksize, block_number, retries, tmp, sink, written, dest, junk>>
            ELSE /\ nrx > 0 => junk < MaxJunk
                 /\ junk' = IF nrx > 0 THEN junk + 1 ELSE junk
                 /\ blocksize' = r.blocksize
                 /\ log' = log \o <<Rx(p), Tx(Ack(0, p.addr))>>
                 /\ UNCHANGED <<pc, cause, block_number, retries, tmp, sink, written, dest>>
       ELSE IF p.opcode = OPCODE_DATA
       THEN IF p.size < 4
            THEN \* struct.unpack('!H', data[2:4]) raises struct.error
                 /\ pc' = "Aborted"
                 /\ cause' = "exception"
                 /\ log' = Append(log, Rx(p))
                 /\ UNCHANGED <<blocksize, block_number, retries, tmp, sink, written, dest, junk>>
            ELSE IF oack_IsDuplicate(p.block, block_number)
            THEN \* "Duplicate block received, ignoring..."
                 /\ junk < MaxJunk
                 /\ junk' = junk + 1
                 /\ log' = Append(log, Rx(p))
                 /\ UNCHANGED <<pc, cause, blocksize, block_number, retries, tmp, sink,
                                written, dest>>
            ELSE IF oack_IsExpected(p.block, block_number)
            THEN IF ~write_ok
                 THEN /\ pc' = "Aborted"
                      /\ cause' = "exception"
                      /\ log' = Append(log, Rx(p))
                      /\ UNCHANGED <<blocksize, block_number, retries, tmp, sink, written,
                                     dest, junk>>
                 ELSE /\ written' = Append(written, p.block)
                      /\ log' = log \o <<Rx(p), Tx(Ack(block_number, p.addr))>>
                      /\ block_number' = block_number + 1
                      /\ retries' = 0
                      /\ IF oack_IsLastBlock(p.len, blocksize)
                         THEN /\ dest' = [exists |-> TRUE,
                                          data |-> Append(sink, [id |-> p.id, len |-> p.len])]
                              /\ tmp' = FALSE
                              /\ sink' = <<>>
                              /\ pc' = "Complete"
                         ELSE /\ sink' = Append(sink, [id |-> p.id, len |-> p.len])
                              /\ UNCHANGED <<tmp, dest, pc>>
                      /\ UNCHANGED <<cause, blocksize, junk>>
            ELSE \* a block number above the expected one: nothing happens
                 /\ junk < MaxJunk
                 /\ junk' = junk + 1
                 /\ log' = Append(log, Rx(p))
                 /\ UNCHANGED <<pc, cause, blocksize, block_number, retries, tmp, sink,
                                written, dest>>
       ELSE \* any other opcode, an Error packet included: nothing happens
            /\ junk < MaxJunk
            /\ junk' = junk + 1
            /\ log' = Append(log, Rx(p))
            /\ UNCHANGED <<pc, cause, blocksize, block_number, retries, tmp, sink,
                           written, dest>>
    /\ UNCHANGED <<impl, earlier, op, tsize, srcSize, srcPos, data_block>>

OackDownloadInputs ==
    DownloadInputs
    \cup {<<Rx(Oack(<<>>, ServerTid)), TRUE>>, <<Rx(Runt(0, 1, ServerTid)), TRUE>>}

NextOack ==
    \/ tftp_client_get
    \/ oack_receive_file_timeout
    \/ \E in \in OackDownloadInputs : oack_receive_file_recv(in[1], in[2])

Next == NextCO \/ NextOack

Spec == Init /\ [][Next]_vars

----------------------------------------------------------------------------
(* oack_implementation: upload *)

(* oack_implementation.send_request, lines 57-63: tsize goes into the      *)
(* request whenever it is not None, a size of 0 included.                  *)
oack_send_request(opcode, bs, ts) ==
    LET o1 == IF Truthy(bs) THEN <<KeyBlksize, NumTok(bs)>> ELSE <<>>
        o2 == IF ts # NoneVal THEN <<KeyTsize, NumTok(ts)>> ELSE <<>>
    IN  Tx(Packet(opcode, 0, 0, 0, o1 \o o2, 2 + OptBytes(o1 \o o2), WellKnown))

(* line 219: the Acknowledgment send_file takes for the current block; the *)
(* opcode is unpacked into _ and never looked at                           *)
oack_IsExpectedAck(opcode, ack_block, bn) == ack_block = bn

(* line 236 *)
oack_IsLastChunk(len, bs) == len < bs

(* line 212: where send_file sends its Data packets *)
oack_DataTarget(addr) == WellKnown

(* tftp_client, line 271 and send_file, lines 175-186: tftp_client sends a *)
(* write request, send_file sends a second one with the file size, then    *)
(* blocks in recvfrom.  BLOCK_SIZE is the module's global.                 *)
tftp_client_put(size) ==
    /\ impl = "oack_implementation"
    /\ pc = "Idle"
    /\ op' = "upload"
    /\ srcSize' = size
    /\ log' = <<oack_send_request(OPCODE_WRQ, blocksize, NoneVal),
                oack_send_request(OPCODE_WRQ, blocksize, size)>>
    /\ pc' = "AwaitingNegotiation"
    /\ UNCHANGED <<impl, earlier, cause, blocksize, tsize, block_number, retries, tmp, sink,
                   written, dest, srcPos, data_block, nrx, junk>>

(* send_file, lines 184-212: the first response.  After an OACK or ACK 0   *)
(* the source is opened and the first chunk goes out as Data block 1.      *)
oack_send_file_first(ev) ==
    /\ impl = "oack_implementation" /\ op = "upload"
    /\ pc = "AwaitingNegotiation"
    /\ nrx' = nrx + 1
    /\ LET p == recvfrom(ev.pkt, 4 + blocksize)
           r == process_oack(p.opts, 1, blocksize)
           bs == IF p.opcode = OPCODE_OACK THEN r.blocksize ELSE blocksize
           chunk == read(0, srcSize, bs)
           acks == IF p.opcode = OPCODE_OACK THEN <<Tx(Ack(0, p.addr))>> ELSE <<>>
       IN
       IF ev = Timeout
       THEN \* "No response from server after WRQ."
            /\ pc' = "Aborted"
            /\ cause' = "negotiation"
            /\ log' = Append(log, Timeout)
            /\ UNCHANGED <<blocksize, block_number, retries, srcPos, data_block>>
       ELSE IF \/ p.size < 2
               \/ p.opcode = OPCODE_OACK /\ r.raised
               \/ p.opcode = OPCODE_ACK /\ p.size # 4
       THEN \* struct.error or ValueError, caught in tftp_client at line 273
            /\ pc' = "Aborted"
            /\ cause' = "exception"
            /\ log' = Append(log, Rx(p))
            /\ UNCHANGED <<blocksize, block_number, retries, srcPos, data_block>>
       ELSE IF \/ p.opcode \notin {OPCODE_OACK, OPCODE_ACK}
               \/ p.opcode = OPCODE_ACK /\ p.block # 0
       THEN \* "Unexpected response from server." / "Unexpected ACK block number."
            /\ pc' = "Aborted"
            /\ cause' = "negotiation"
            /\ log' = Append(log, Rx(p))
            /\ UNCHANGED <<blocksize, block_number, retries, srcPos, data_block>>
       ELSE /\ blocksize' = bs
            /\ block_number' = 1
            /\ retries' = 0
            /\ data_block' = chunk
            /\ srcPos' = chunk.len
            /\ log' = (log \o <<Rx(p)>>) \o acks
                        \o <<Tx(Data(1, chunk.id, chunk.len, oack_DataTarget(p.addr)))>>
            /\ pc' = "Transferring"
            /\ UNCHANGED cause
    /\ UNCHANGED <<impl, earlier, op, tsize, tmp, sink, written, dest, srcSize, junk>>

(* send_file, lines 228-234 and 209-212: socket.timeout while waiting for  *)
(* the ACK; continue goes back to f.read at the top of the loop.           *)
oack_send_file_timeout ==
    /\ impl = "oack_implementation" /\ op = "upload"
    /\ pc = "Transferring"
    /\ nrx < MaxRx
    /\ nrx' = nrx + 1
    /\ retries' = retries + 1
    /\ LET chunk == read(srcPos, srcSize, blocksize)
       IN  IF oack_RetriesReached(retries')
           THEN /\ pc' = "Aborted"
                /\ cause' = "retries"
                /\ log' = Append(log, Timeout)
                /\ UNCHANGED <<srcPos, data_block>>
           ELSE /\ data_block' = chunk
                /\ srcPos' = srcPos + chunk.len
                /\ log' = log \o <<Timeout,
                            Tx(Data(block_number, chunk.id, chunk.len, oack_DataTarget(ServerTid)))>>
                /\ UNCHANGED <<pc, cause>>
    /\ UNCHANGED <<impl, earlier, op, blocksize, tsize, block_number, tmp, sink, written, dest,
                   srcSize, junk>>

(* send_file, lines 216-227, 236-241 and 209-212: recvfrom(4) returns a    *)
(* datagram                                                               *)
oack_send_file_recv(ev) ==
    /\ impl = "oack_implementation" /\ op = "upload"
    /\ pc = "Transferring"
    /\ nrx < MaxRx
    /\ nrx' = nrx + 1
    /\ LET ack == recvfrom(ev.pkt, 4)
           chunk == read(srcPos, srcSize, blocksize)
       IN
       IF ack.size # 4
       THEN \* struct.unpack('!HH', ack) raises struct.error, caught in tftp_client
            /\ pc' = "Aborted"
            /\ cause' = "exception"
            /\ log' = Append(log, Rx(ack))
            /\ UNCHANGED <<block_number, retries, srcPos, data_block>>
       ELSE IF ~oack_IsExpectedAck(ack.opcode, ack.block, block_number)
       THEN /\ retries' = retries + 1
            /\ IF oack_RetriesReached(retries')
               THEN /\ pc' = "Aborted"
                    /\ cause' = "retries"
                    /\ log' = Append(log, Rx(ack))
                    /\ UNCHANGED <<block_number, srcPos, data_block>>
               ELSE \* continue: the next chunk is read and sent under the same number
                    /\ data_block' = chunk
                    /\ srcPos' = srcPos + chunk.len
                    /\ log' = log \o <<Rx(ack),
                                Tx(Data(block_number, chunk.id, chunk.len, oack_DataTarget(ack.addr)))>>
                    /\ UNCHANGED <<pc, cause, block_number>>
       ELSE /\ retries' = 0
            /\ IF oack_IsLastChunk(data_block.len, blocksize)
               THEN /\ pc' = "Complete"
                    /\ log' = Append(log, Rx(ack))
                    /\ UNCHANGED <<cause, block_number, srcPos, data_block>>
               ELSE /\ block_number' = block_number + 1
                    /\ data_block' = chunk
                    /\ srcPos' = srcPos + chunk.len
                    /\ log' = log \o <<Rx(ack),
                                Tx(Data(block_number + 1, chunk.id, chunk.len, oack_DataTarget(ack.addr)))>>
                    /\ UNCHANGED <<pc, cause>>
    /\ UNCHANGED <<impl, earlier, op, blocksize, tsize, tmp, sink, written, dest, srcSize, junk>>

\* what the server may send while send_file waits for an Acknowledgment
OackUploadPackets ==
    {Rx(Ack(k, ServerTid)) : k \in {block_number - 1, block_number}}
    \cup {Rx(Error(1, ServerTid)), Rx(Data(block_number, nrx + 1, ShortLen, ServerTid)),
          Rx(Runt(0, 1, ServerTid))}

NextOackPut ==
    \/ \E size \in SourceSizes : tftp_client_put(size)
    \/ \E ev \in FirstResponses("upload") : oack_send_file_first(ev)
    \/ oack_send_file_timeout
    \/ \E ev \in OackUploadPackets : oack_send_file_recv(ev)

----------------------------------------------------------------------------
(* tftp_client.py: upload (no option negotiation, BLOCK_SIZE is constant) *)

(* tftp_client.py line 180: the Acknowledgment send_file takes for the     *)
(* current block                                                           *)
tc_IsExpectedAck(opcode, ack_block, bn) == ack_block = bn

(* tftp_client.py line 192 *)
tc_IsLastChunk(len, bs) == len < bs

(* tftp_client, line 224 and send_file, lines 147-176: two write requests, *)
(* then the first chunk is read and sent as Data block 1 without waiting   *)
(* for any answer to the request.                                          *)
tc_tftp_client_put(size) ==
    /\ impl = "tftp_client"
    /\ pc = "Idle"
    /\ op' = "upload"
    /\ srcSize' = size
    /\ LET chunk == read(0, size, BLOCK_SIZE)
       IN  /\ data_block' = chunk
           /\ srcPos' = chunk.len
           /\ log' = <<send_request(OPCODE_WRQ, BLOCK_SIZE, NoneVal),
                       send_request(OPCODE_WRQ, BLOCK_SIZE, size),
                       Tx(Data(1, chunk.id, chunk.len, WellKnown))>>
    /\ block_number' = 1
    /\ pc' = "Transferring"
    /\ UNCHANGED <<impl, earlier, cause, blocksize, tsize, retries, tmp, sink, written, dest,
                   nrx, junk>>

(* send_file, lines 185-189: a timeout ends the upload at once *)
tc_send_file_timeout ==
    /\ impl = "tftp_client" /\ op = "upload"
    /\ pc = "Transferring"
    /\ nrx < MaxRx
    /\ nrx' = nrx + 1
    /\ pc' = "Aborted"
    /\ cause' = "timeout"
    /\ log' = Append(log, Timeout)
    /\ UNCHANGED <<impl, earlier, op, blocksize, tsize, block_number, retries, tmp, sink, written,
                   dest, srcSize, srcPos, data_block, junk>>

(* send_file, lines 176-183, 192-194 and 165-171: recvfrom(4) returns a    *)
(* datagram.  Both continue (line 183) and falling off the end of the      *)
(* loop body lead to f.read and block_number += 1 at the top of the loop.  *)
tc_send_file_recv(ev) ==
    /\ impl = "tftp_client" /\ op = "upload"
    /\ pc = "Transferring"
    /\ nrx < MaxRx
    /\ nrx' = nrx + 1
    /\ LET ack == recvfrom(ev.pkt, 4)
           chunk == read(srcPos, srcSize, BLOCK_SIZE)
       IN
       IF ack.size # 4
       THEN \* struct.error, caught in tftp_client at line 226
            /\ pc' = "Aborted"
            /\ cause' = "exception"
            /\ log' = Append(log, Rx(ack))
            /\ UNCHANGED <<block_number, srcPos, data_block>>
       ELSE IF /\ tc_IsExpectedAck(ack.opcode, ack.block, block_number)
               /\ tc_IsLastChunk(data_block.len, BLOCK_SIZE)
       THEN /\ pc' = "Complete"
            /\ log' = Append(log, Rx(ack))
            /\ UNCHANGED <<cause, block_number, srcPos, data_block>>
       ELSE /\ block_number' = block_number + 1
            /\ data_block' = chunk
            /\ srcPos' = srcPos + chunk.len
            /\ log' = log \o <<Rx(ack),
                        Tx(Data(block_number + 1, chunk.id, chunk.len, WellKnown))>>
            /\ UNCHANGED <<pc, cause>>
    /\ UNCHANGED <<impl, earlier, op, blocksize, tsize, retries, tmp, sink, written, dest,
                   srcSize, junk>>

\* what the server may send while tftp_client.py's send_file waits
TcUploadPackets ==
    {Rx(Ack(k, ServerTid)) : k \in {block_number - 1, block_number}}
    \cup {Rx(Error(1, ServerTid)), Rx(Runt(0, 1, ServerTid))}

NextTc ==
    \/ \E size \in SourceSizes : tc_tftp_client_put(size)
    \/ tc_send_file_timeout
    \/ \E ev \in TcUploadPackets : tc_send_file_recv(ev)

----------------------------------------------------------------------------
(* The uploads of oack_implementation and of tftp_client.py *)
InitPut ==
    /\ impl \in {"oack_implementation", "tftp_client"}
    /\ op = "none"
    /\ pc = "Idle"
    /\ cause = "none"
    /\ blocksize = BLOCK_SIZE
    /\ tsize = NoneVal
    /\ block_number = 0
    /\ retries = 0
    /\ tmp = FALSE
    /\ sink = <<>>
    /\ written = <<>>
    /\ dest = NoFile
    /\ srcSize = 0
    /\ srcPos = 0
    /\ data_block = NoChunk
    /\ log = <<>>
    /\ nrx = 0
    /\ junk = 0
    /\ earlier = <<>>

NextPut == NextOackPut \/ NextTc

SpecPut == InitPut /\ [][NextPut]_vars

----------------------------------------------------------------------------
(* Option negotiation: the server answers every request with an OACK that  *)
(* carries a blksize of its choosing, then serves the transfer in order.   *)

\* the blksize values the server may put in its OACK
NegBlksizes == {0, 1, 1024, RFC2348_MAX, RFC2348_MAX + 1, 999999}

NegOacks == {Rx(Oack(<<KeyBlksize, NumTok(v)>>, ServerTid)) : v \in NegBlksizes}

\* OACKs with an odd number of tokens: the last key has no value
OddOacks ==
    {Rx(Oack(o, ServerTid)) :
        o \in { <<KeyBlksize>>,
                <<KeyBlksize, NumTok(1024), KeyTsize>>,
                <<KeyBlksize, NumTok(1024), Tok("timeout", NoneVal, 7)>> }}

\* the next Data block of the server: empty, short, or as long as RFC 2348 allows
NegData ==
    {Rx(Data(block_number, nrx + 1, l, ServerTid)) :
        l \in {m \in {0, ShortLen, Min(blocksize, RFC2348_MAX)} : m <= blocksize}}

\* the OACK comes first, Data follows
NegOackDownload == IF nrx = 0 THEN NegOacks ELSE NegData

NextNeg ==
    \/ \E b \in RequestedBlocksizes : operations_proper_RRQ(b)
    \/ \E ev \in NegOacks \cup OddOacks : receive_file_negotiate(ev)
    \/ \E ev \in NegData : receive_file_recv(ev, TRUE)
    \/ receive_file_timeout
    \/ \E b \in RequestedBlocksizes, size \in SourceSizes : operations_proper_WRQ(b, size)
    \/ \E ev \in NegOacks \cup OddOacks : send_file_negotiate(ev)
    \/ send_file_recv(Rx(Ack(block_number, ServerTid)))
    \/ send_file_timeout
    \/ tftp_client_get
    \/ \E ev \in NegOackDownload : oack_receive_file_recv(ev, TRUE)
    \/ \E size \in SourceSizes : tftp_client_put(size)
    \/ \E ev \in NegOacks : oack_send_file_first(ev)
    \/ oack_send_file_recv(Rx(Ack(block_number, ServerTid)))

SpecNeg == Init /\ [][NextNeg]_vars

----------------------------------------------------------------------------
(* oack_implementation: one transfer after another in the same process *)

(* __main__, lines 300-341: tftp_client has returned and closed its        *)
(* socket, the loop asks for the next file and calls tftp_client again.    *)
(* The locals of the finished transfer are gone; the module's global       *)
(* BLOCK_SIZE is what process_oack left in it.                             *)
main_next_transfer ==
    /\ impl = "oack_implementation"
    /\ pc \in {"Complete", "Aborted"}
    /\ nrx < MaxRx
    /\ op' = "none"
    /\ pc' = "Idle"
    /\ cause' = "none"
    /\ block_number' = 0
    /\ retries' = 0
    /\ tmp' = FALSE
    /\ sink' = <<>>
    /\ written' = <<>>
    /\ dest' = NoFile
    /\ srcSize' = 0
    /\ srcPos' = 0
    /\ data_block' = NoChunk
    /\ log' = <<>>
    /\ junk' = 0
    /\ UNCHANGED <<impl, earlier, blocksize, tsize, nrx>>

\* the server answers a read request with an OACK or with Data block 1,
\* then sends the blocks in order
SeqDownloadPackets ==
    IF Len(log) = 1
    THEN {Rx(Oack(<<KeyBlksize, NumTok(1024)>>, ServerTid)),
          Rx(Data(1, nrx + 1, ShortLen, ServerTid))}
    ELSE ExpectedData

InitSeq ==
    /\ impl = "oack_implementation"
    /\ op = "none"
    /\ pc = "Idle"
    /\ cause = "none"
    /\ blocksize = BLOCK_SIZE
    /\ tsize = NoneVal
    /\ block_number = 0
    /\ retries = 0
    /\ tmp = FALSE
    /\ sink = <<>>
    /\ written = <<>>
    /\ dest = NoFile
    /\ srcSize = 0
    /\ srcPos = 0
    /\ data_block = NoChunk
    /\ log = <<>>
    /\ nrx = 0
    /\ junk = 0
    /\ earlier = <<>>

NextSeq ==
    \/ tftp_client_get
    \/ \E ev \in SeqDownloadPackets : oack_receive_file_recv(ev, TRUE)
    \/ oack_receive_file_timeout
    \/ \E size \in SourceSizes : tftp_client_put(size)
    \/ \E ev \in FirstResponses("upload") : oack_send_file_first(ev)
    \/ oack_send_file_recv(Rx(Ack(block_number, ServerTid)))
    \/ oack_send_file_timeout
    \/ main_next_transfer

SpecSeq == InitSeq /\ [][NextSeq]_vars

----------------------------------------------------------------------------
(* client_operations: a long transfer, taken up where block WrapStart is   *)
(* the current one.  The log, the sink and the list of written blocks hold *)
(* what happened from that point on.                                       *)

WrapStart == MaxBlockNumber - 1

\* the block number field of the packet a peer sends for its k-th block
WireBlock(k) == k % (MaxBlockNumber + 1)

\* the sizes of the source of an upload that is that long: it ends with
\* block MaxBlockNumber (full), or two blocks later with a short one
WrapSourceSizes == {MaxBlockNumber * BLOCK_SIZE, (MaxBlockNumber + 1) * BLOCK_SIZE + ShortLen}

InitWrap ==
    /\ impl = "client_operations"
    /\ op \in {"download", "upload"}
    /\ pc = "Transferring"
    /\ cause = "none"
    /\ blocksize = BLOCK_SIZE
    /\ tsize = NoneVal
    /\ block_number = WrapStart
    /\ retries = 0
    /\ tmp = (op = "download")
    /\ sink = <<>>
    /\ written = <<>>
    /\ dest = NoFile
    /\ srcSize \in (IF op = "upload" THEN WrapSourceSizes ELSE {0})
    /\ srcPos = IF op = "upload" THEN WrapStart * BLOCK_SIZE ELSE 0
    /\ data_block = IF op = "upload"
                    THEN [id |-> (WrapStart - 1) * BLOCK_SIZE, len |-> BLOCK_SIZE]
                    ELSE NoChunk
    /\ log = IF op = "upload"
             THEN <<Tx(Data(WrapStart, (WrapStart - 1) * BLOCK_SIZE, BLOCK_SIZE, WellKnown))>>
             ELSE <<Tx(Ack(WrapStart - 1, ServerTid))>>
    /\ nrx = 0
    /\ junk = 0
    /\ earlier = <<>>

\* the server's next Data block, numbered as the wire allows
WrapData ==
    {Rx(Data(WireBlock(block_number), nrx + 1, l, ServerTid)) : l \in DataLens(blocksize)}

\* the server's Acknowledgment of the client's current block
WrapAcks == {Rx(Ack(WireBlock(block_number), ServerTid))}

NextWrap ==
    \/ receive_file_timeout
    \/ \E ev \in WrapData : receive_file_recv(ev, TRUE)
    \/ send_file_timeout
    \/ \E ev \in WrapAcks : send_file_recv(ev)

SpecWrap == InitWrap /\ [][NextWrap]_vars

----------------------------------------------------------------------------
(* send_request on its own: the arguments are drawn freely, the request    *)
(* it builds is the only entry of the log.                                 *)

\* values of the blocksize and tsize arguments (NoneVal: not given)
RequestBlocksizes == {NoneVal, 0, 8, BLOCK_SIZE, 1024, RFC2348_MAX}
RequestTsizes == {NoneVal, 0, 1, ShortLen, BLOCK_SIZE, 1024}

(* send_request(sock, server_ip, filename, mode, opcode, blocksize, tsize) *)
(* of client_operations (lines 27-49) or of oack_implementation (lines     *)
(* 40-63); op, blocksize and tsize keep the arguments of the call.         *)
call_send_request(opcode, bs, ts) ==
    /\ pc = "Idle"
    /\ op' = IF opcode = OPCODE_RRQ THEN "download" ELSE "upload"
    /\ blocksize' = bs
    /\ tsize' = ts
    /\ log' = <<IF impl = "client_operations" THEN send_request(opcode, bs, ts)
                ELSE oack_send_request(opcode, bs, ts)>>
    /\ pc' = "AwaitingNegotiation"
    /\ UNCHANGED <<impl, earlier, cause, block_number, retries, tmp, sink, written, dest,
                   srcSize, srcPos, data_block, nrx, junk>>

NextRequest ==
    \E opcode \in {OPCODE_RRQ, OPCODE_WRQ}, bs \in RequestBlocksizes, ts \in RequestTsizes :
        call_send_request(opcode, bs, ts)

SpecRequest == Init /\ [][NextRequest]_vars

----------------------------------------------------------------------------
(* client_operations and datagrams that are no TFTP packets *)

\* a datagram of n >= 2 bytes whose first two bytes are no TFTP opcode
Undecodable(opcode, n, addr) == Packet(opcode, 0, 0, 0, <<>>, n, addr)

\* one byte; four bytes with opcode 0 or 9; twenty bytes with opcode 7
MalformedPackets ==
    {Rx(Runt(0, 1, ServerTid)), Rx(Undecodable(0, 4, ServerTid)),
     Rx(Undecodable(9, 4, ServerTid)), Rx(Undecodable(7, 20, ServerTid))}

NextMalformed ==
    \/ \E b \in RequestedBlocksizes : operations_proper_RRQ(b)
    \/ \E ev \in FirstResponses("download") \cup MalformedPackets : receive_file_negotiate(ev)
    \/ receive_file_timeout
    \/ \E ev \in ExpectedData \cup MalformedPackets : receive_file_recv(ev, TRUE)
    \/ \E b \in RequestedBlocksizes, size \in SourceSizes : operations_proper_WRQ(b, size)
    \/ \E ev \in FirstResponses("upload") \cup MalformedPackets : send_file_negotiate(ev)
    \/ send_file_timeout
    \/ \E ev \in {Rx(Ack(block_number, ServerTid))} \cup MalformedPackets : send_file_recv(ev)

SpecMalformed == Init /\ [][NextMalformed]_vars

----------------------------------------------------------------------------
(* client_operations: several operations on the one socket of main.py *)

MaxEarlier == 2   \* datagrams of finished operations that may still arrive

\* the transfer identifier the server used in an operation that is over
EarlierTid == "earlier tid"

\* what the socket received during the operation that ends, as a copy that
\* is still on its way would arrive later: from that operation's port
ReceivedPackets ==
    LET rx == SelectSeq(log, LAMBDA e : e.ev = "rx")
    IN  [i \in 1..Len(rx) |-> [rx[i].pkt EXCEPT !.addr = EarlierTid]]

(* receive_file or send_file has returned, or operations_proper has caught *)
(* its exception: the while loop asks for the next operation.  The socket  *)
(* stays open; the locals of the finished operation are gone.              *)
operations_proper_next ==
    /\ impl = "client_operations"
    /\ pc \in {"Complete", "Aborted"}
    /\ nrx < MaxRx
    /\ Len(earlier) + Len(ReceivedPackets) <= MaxEarlier
    /\ earlier' = earlier \o ReceivedPackets
    /\ op' = "none"
    /\ pc' = "Idle"
    /\ cause' = "none"
    /\ blocksize' = BLOCK_SIZE
    /\ tsize' = NoneVal
    /\ block_number' = 0
    /\ retries' = 0
    /\ tmp' = FALSE
    /\ sink' = <<>>
    /\ written' = <<>>
    /\ dest' = NoFile
    /\ srcSize' = 0
    /\ srcPos' = 0
    /\ data_block' = NoChunk
    /\ log' = <<>>
    /\ junk' = 0
    /\ UNCHANGED <<impl, nrx>>

\* delayed or duplicated datagrams of the earlier operations
StalePackets == {Rx(earlier[i]) : i \in DOMAIN earlier}

InitOps ==
    /\ Init
    /\ impl = "client_operations"

NextOps ==
    \/ operations_proper_RRQ(BLOCK_SIZE)
    \/ \E ev \in SeqDownloadPackets \cup StalePackets : receive_file_negotiate(ev)
    \/ receive_file_timeout
    \/ \E ev \in ExpectedData \cup StalePackets : receive_file_recv(ev, TRUE)
    \/ \E size \in {ShortLen, BLOCK_SIZE} : operations_proper_WRQ(BLOCK_SIZE, size)
    \/ \E ev \in {Rx(Oack(<<>>, ServerTid)), Rx(Ack(0, ServerTid))} \cup StalePackets :
          send_file_negotiate(ev)
    \/ send_file_timeout
    \/ \E ev \in {Rx(Ack(block_number, ServerTid))} \cup StalePackets : send_file_recv(ev)
    \/ operations_proper_next

SpecOps == InitOps /\ [][NextOps]_vars

----------------------------------------------------------------------------
(* Reading the log *)

\* what the recvfrom calls of the session returned, in order
RxEvents == SelectSeq(log, LAMBDA e : e.ev # "tx")

IsRx(e, opcode) == e.ev = "rx" /\ e.pkt.opcode = opcode
IsTx(e, opcode) == e.ev = "tx" /\ e.pkt.opcode = opcode

\* the server's blocks 1..N in order, all full but the last, nothing else
IsDataRun(ds, bs) ==
    /\ ds # <<>>
    /\ \A i \in 1..Len(ds) :
          /\ IsRx(ds[i], OPCODE_DATA)
          /\ ds[i].pkt.block = i
          /\ IF i < Len(ds) THEN ds[i].pkt.len = bs ELSE ds[i].pkt.len < bs

Payloads(ds) == [i \in 1..Len(ds) |-> [id |-> ds[i].pkt.id, len |-> ds[i].pkt.len]]

StartsWithOack(rx) == rx # <<>> /\ IsRx(rx[1], OPCODE_OACK)

----------------------------------------------------------------------------
(* C1: a download through client_operations to which the server delivers   *)
(* Data blocks 1..N in order (N-1 full blocks, then a shorter one), with    *)
(* nothing lost and no timeout, ends in Complete with the destination       *)
(* holding payload(1) ++ ... ++ payload(N), both when the server first      *)
(* sends an OACK and when its first reply is Data block 1.                  *)
C1_DownloadCompletes ==
    (impl = "client_operations" /\ op = "download") =>
        LET rx == RxEvents
            ds == IF StartsWithOack(rx) THEN Tail(rx) ELSE rx
            bs == IF StartsWithOack(rx)
                  THEN ParseOptions(rx[1].pkt.opts, 1, BLOCK_SIZE, NoneVal).blocksize
                  ELSE BLOCK_SIZE
        IN  IsDataRun(ds, bs) =>
                /\ pc = "Complete"
                /\ dest = [exists |-> TRUE, data |-> Payloads(ds)]

(* C1, the half that the code satisfies: the same with an OACK first *)
C1_WithOack ==
    (impl = "client_operations" /\ op = "download" /\ StartsWithOack(RxEvents)) =>
        C1_DownloadCompletes

C1_WithOack_Reached ==
    /\ impl = "client_operations" /\ op = "download" /\ StartsWithOack(RxEvents)
    /\ pc = "Complete" /\ Len(dest.data) = 2 /\ blocksize = 1024

----------------------------------------------------------------------------
(* C2: an upload by client_operations.send_file of a source of N full      *)
(* blocks (N >= 1) sends, once ACK N has arrived, Data block N+1 with an    *)
(* empty payload; it sends no Data block numbered above N+1, and it is      *)
(* Complete only after ACK N+1 has arrived.                                 *)
FullBlocks == srcSize \div blocksize

IsAckOf(e, k) == IsRx(e, OPCODE_ACK) /\ e.pkt.size = 4 /\ e.pkt.block = k

C2_EmptyTerminalBlock ==
    ( /\ impl = "client_operations" /\ op = "upload"
      /\ pc \in {"Transferring", "Complete", "Aborted"}
      /\ blocksize > 0 /\ srcSize > 0 /\ srcSize % blocksize = 0 ) =>
        /\ \A i \in 1..Len(log) :
              IsTx(log[i], OPCODE_DATA) =>
                 /\ log[i].pkt.block <= FullBlocks + 1
                 /\ log[i].pkt.block = FullBlocks + 1 =>
                       /\ log[i].pkt.len = 0
                       /\ \E j \in 1..(i - 1) : IsAckOf(log[j], FullBlocks)
        \* the empty block follows ACK N at once
        /\ \A j \in 1..Len(log) :
              ( /\ IsAckOf(log[j], FullBlocks)
                /\ \E i \in 1..(j - 1) : IsTx(log[i], OPCODE_DATA) /\ log[i].pkt.block = FullBlocks
                /\ ~\E i \in 1..(j - 1) : IsAckOf(log[i], FullBlocks) ) =>
                    /\ j < Len(log)
                    /\ log[j + 1] = Tx(Data(FullBlocks + 1, srcSize, 0, WellKnown))
        /\ pc = "Complete" =>
              \E i, j \in 1..Len(log) :
                 /\ i < j
                 /\ IsTx(log[i], OPCODE_DATA) /\ log[i].pkt.block = FullBlocks + 1
                 /\ IsAckOf(log[j], FullBlocks + 1)

C2_Reached ==
    /\ impl = "client_operations" /\ op = "upload" /\ pc = "Complete"
    /\ srcSize = 1024 /\ blocksize = 512 /\ block_number = 3
    /\ \E i \in 1..Len(log) : log[i] = Timeout

----------------------------------------------------------------------------
(* C3: in a download the blocks whose payloads are written to the sink are *)
(* blocks 1, 2, 3, ... in that order, whatever arrives: no gap, and no      *)
(* block twice.                                                            *)
C3_WrittenInOrder ==
    op = "download" =>
        /\ \A i \in 1..Len(written) : written[i] = i
        /\ pc \in {"Transferring"} => Len(sink) = Len(written)
        /\ pc = "Complete" => Len(dest.data) = Len(written)

C3_Reached ==
    /\ op = "download" /\ written = <<1, 2>> /\ junk > 0
    /\ \E i \in 1..Len(log) :
          IsRx(log[i], OPCODE_DATA) /\ log[i].pkt.block = 1 /\ i > 3
          /\ \E j \in 1..(i - 1) : IsTx(log[j], OPCODE_ACK) /\ log[j].pkt.block = 1

----------------------------------------------------------------------------
(* C4: in a download, a Data packet whose block number is lower than the   *)
(* expected one makes the client send one Acknowledgment with that lower    *)
(* block number, leaves the expected block number and the sink as they      *)
(* were, and leaves the client waiting.                                     *)
C4_DuplicateReAcked ==
    [][ ( /\ op = "download" /\ pc = "Transferring"
          /\ Len(log') > Len(log)
          /\ IsRx(log'[Len(log) + 1], OPCODE_DATA)
          /\ log'[Len(log) + 1].pkt.size >= 4
          /\ log'[Len(log) + 1].pkt.block < block_number ) =>
            /\ log' = log \o << log'[Len(log) + 1],
                                Tx(Ack(log'[Len(log) + 1].pkt.block, log'[Len(log) + 1].pkt.addr)) >>
            /\ block_number' = block_number
            /\ sink' = sink
            /\ written' = written
            /\ pc' = "Transferring" ]_vars

----------------------------------------------------------------------------
(* C5: the destination of a download comes to exist only when the session  *)
(* is Complete, after a Data block shorter than the blocksize was accepted  *)
(* and its Acknowledgment sent; before Complete, and in Aborted, a          *)
(* destination that did not exist at the start does not exist.              *)
C5_DestinationOnlyWhenComplete ==
    op = "download" =>
        /\ pc # "Complete" => ~dest.exists
        /\ dest.exists =>
              /\ Len(log) >= 2
              /\ IsRx(log[Len(log) - 1], OPCODE_DATA)
              /\ log[Len(log) - 1].pkt.block = Len(written)
              /\ log[Len(log) - 1].pkt.len < blocksize
              /\ log[Len(log)] = Tx(Ack(Len(written), log[Len(log) - 1].pkt.addr))

C5_Reached ==
    /\ op = "download" /\ pc = "Complete" /\ dest.exists /\ Len(dest.data) = 2

----------------------------------------------------------------------------
(* C6: a download by client_operations.receive_file that ends without      *)
(* reaching Complete leaves no temporary file and no destination.           *)
C6_AbortRemovesTemporary ==
    (impl = "client_operations" /\ op = "download" /\ pc = "Aborted") =>
        ~tmp /\ ~dest.exists

----------------------------------------------------------------------------
(* C7: when the first response to the request is an Error packet, the      *)
(* session (client_operations) is Aborted and the client sends nothing      *)
(* after that Error; a download creates no file.                            *)
C7_FirstResponseError ==
    ( /\ impl = "client_operations"
      /\ Len(log) >= 2 /\ IsRx(log[2], OPCODE_ERROR) ) =>
        /\ pc = "Aborted"
        /\ \A i \in 3..Len(log) : log[i].ev # "tx"
        /\ ~tmp /\ ~dest.exists

----------------------------------------------------------------------------
(* C8: in a download, an Error packet received in the block loop (after    *)
(* any number of accepted blocks) ends the session in Aborted at once: the  *)
(* partial output is discarded and nothing is sent after the Error.         *)
\* the log positions of what the block loop received
InBlockLoop(i) == IF impl = "client_operations" THEN i > 2 ELSE i > 1

C8_ErrorAbortsDownload ==
    op = "download" =>
        \A i \in 1..Len(log) :
            (InBlockLoop(i) /\ IsRx(log[i], OPCODE_ERROR) /\ log[i].pkt.size >= 4) =>
                /\ i = Len(log)
                /\ pc = "Aborted"
                /\ ~tmp /\ ~dest.exists

(* C8 as client_operations.receive_file satisfies it *)
C8_ClientOperations == impl = "client_operations" => C8_ErrorAbortsDownload

----------------------------------------------------------------------------
(* C9: in an upload by client_operations.send_file, an Error packet         *)
(* received while waiting for an Acknowledgment ends the session in         *)
(* Aborted: no Data packet follows it and the upload is never Complete.     *)
C9_ErrorAbortsUpload ==
    (impl = "client_operations" /\ op = "upload") =>
        \A i \in 3..Len(log) :
            (IsRx(log[i], OPCODE_ERROR) /\ log[i].pkt.size >= 4) =>
                /\ pc = "Aborted"
                /\ \A j \in (i + 1)..Len(log) : log[j].ev # "tx"

----------------------------------------------------------------------------
(* C10: retry ceiling of an upload by client_operations.send_file *)

\* where in the log Data block k was sent for the first time (0: never)
FirstSent(k) ==
    LET at == {i \in 1..Len(log) : IsTx(log[i], OPCODE_DATA) /\ log[i].pkt.block = k}
    IN  IF at = {} THEN 0 ELSE CHOOSE i \in at : \A j \in at : i <= j

\* what recvfrom returned since the current Data block was first sent
SinceCurrentBlock ==
    SelectSeq(SubSeq(log, FirstSent(block_number) + 1, Len(log)), LAMBDA e : e.ev # "tx")

RECURSIVE TrailingTimeouts(_)
TrailingTimeouts(w) ==
    IF w = <<>> \/ w[Len(w)] # Timeout THEN 0
    ELSE 1 + TrailingTimeouts(SubSeq(w, 1, Len(w) - 1))

TimeoutsIn(w) == Cardinality({i \in 1..Len(w) : w[i] = Timeout})

UploadUnderWay ==
    /\ impl = "client_operations" /\ op = "upload"
    /\ pc \in {"Transferring", "Complete", "Aborted"}
    /\ block_number >= 1

(* C10 as stated: MAX_RETRIES consecutive timeouts while waiting for the   *)
(* Acknowledgment of one Data block end the upload in Aborted, and fewer    *)
(* consecutive timeouts never do.                                           *)
C10_ConsecutiveTimeouts ==
    UploadUnderWay =>
        /\ TrailingTimeouts(SinceCurrentBlock) >= MAX_RETRIES => (pc = "Aborted" /\ cause = "retries")
        /\ (pc = "Aborted" /\ cause = "retries") => TrailingTimeouts(SinceCurrentBlock) >= MAX_RETRIES

(* C10 amended: the upload is aborted on retries exactly when the number   *)
(* of timeouts since the current Data block was first sent reaches          *)
(* MAX_RETRIES, whether or not ignored datagrams arrived between them; an   *)
(* aborted upload is not Complete, and the source keeps its content.        *)
C10_TimeoutsPerBlock ==
    /\ [](UploadUnderWay =>
            /\ TimeoutsIn(SinceCurrentBlock) <= MAX_RETRIES
            /\ TimeoutsIn(SinceCurrentBlock) = MAX_RETRIES <=> (pc = "Aborted" /\ cause = "retries")
            /\ (pc = "Aborted" /\ cause = "retries") => log[Len(log)] = Timeout)
    /\ [][op = "upload" => (srcSize' = srcSize /\ op' = "upload")]_vars

C10_Reached ==
    /\ UploadUnderWay /\ pc = "Aborted" /\ cause = "retries"
    /\ TrailingTimeouts(SinceCurrentBlock) < MAX_RETRIES

----------------------------------------------------------------------------
(* C12: in an upload by client_operations.send_file, an Acknowledgment      *)
(* whose block number differs from the current block number counts         *)
(* against the retry ceiling and makes the client send the current Data    *)
(* packet again (or abort, once MAX_RETRIES is reached).                    *)
C12_MismatchedAckRetries ==
    [][ ( /\ impl = "client_operations" /\ op = "upload" /\ pc = "Transferring"
          /\ Len(log') > Len(log)
          /\ IsRx(log'[Len(log) + 1], OPCODE_ACK)
          /\ log'[Len(log) + 1].pkt.size = 4
          /\ log'[Len(log) + 1].pkt.block # block_number )
        => /\ retries' = retries + 1
           /\ IF retries' >= MAX_RETRIES
              THEN pc' = "Aborted"
              ELSE log'[Len(log')] =
                      Tx(Data(block_number, data_block.id, data_block.len,
                              log'[Len(log')].pkt.addr)) ]_vars

----------------------------------------------------------------------------
(* C18: every packet the client sends after the first response of a        *)
(* session goes to the address that first response came from; the Data     *)
(* packets of an upload go there and not to port 69.                        *)

\* where in the log the first datagram of the session was received (0: none)
FirstResponse ==
    LET at == {i \in 1..Len(log) : log[i].ev = "rx"}
    IN  IF at = {} THEN 0 ELSE CHOOSE i \in at : \A j \in at : i <= j

C18_SentToLearnedPeer ==
    FirstResponse > 0 =>
        \A j \in (FirstResponse + 1)..Len(log) :
            log[j].ev = "tx" => log[j].pkt.addr = log[FirstResponse].pkt.addr

(* C18, the part the code satisfies: Acknowledgments go to the sender of   *)
(* the datagram they answer.                                               *)
C18_AcksToSender ==
    \A j \in 2..Len(log) :
        IsTx(log[j], OPCODE_ACK) => (log[j - 1].ev = "rx" /\ log[j].pkt.addr = log[j - 1].pkt.addr)

----------------------------------------------------------------------------
(* C20: in the block loop of a download by client_operations.receive_file  *)
(* the retry counter is the number of timeouts since the last accepted     *)
(* Data block (or since the loop began): a timeout adds one, an accepted   *)
(* block resets it, and the download is aborted on retries exactly when    *)
(* that number reaches MAX_RETRIES.                                        *)

\* the log position of the last accepted Data block's Acknowledgment, or of
\* the first response, which handle_oack consumed before the loop
LastAccepted ==
    LET at == {i \in 1..Len(log) : IsTx(log[i], OPCODE_ACK) /\ log[i].pkt.block >= 1}
    IN  IF at = {} THEN 2 ELSE CHOOSE i \in at : \A j \in at : i >= j

TimeoutsSinceAccepted ==
    Cardinality({i \in (LastAccepted + 1)..Len(log) : log[i] = Timeout})

InDownloadLoop ==
    /\ impl = "client_operations" /\ op = "download"
    /\ pc \in {"Transferring", "Complete", "Aborted"}

C20_RetryCounter ==
    /\ [](InDownloadLoop =>
            /\ TimeoutsSinceAccepted <= MAX_RETRIES
            /\ pc = "Transferring" => (retries = TimeoutsSinceAccepted /\ retries < MAX_RETRIES)
            /\ (pc = "Aborted" /\ cause = "retries") <=> TimeoutsSinceAccepted = MAX_RETRIES)
    /\ [][ (InDownloadLoop /\ pc = "Transferring" /\ Len(log') > Len(log)) =>
             /\ log'[Len(log) + 1] = Timeout => retries' = retries + 1
             /\ Len(written') > Len(written) => retries' = 0
             /\ (log'[Len(log) + 1] # Timeout /\ written' = written) => retries' = retries ]_vars

C20_Reached ==
    /\ InDownloadLoop /\ pc = "Aborted" /\ cause = "retries"
    /\ retries = MAX_RETRIES /\ TimeoutsSinceAccepted = MAX_RETRIES

\* timeouts counted after a block was accepted
C20_ResetReached ==
    /\ InDownloadLoop /\ pc = "Transferring"
    /\ written # <<>> /\ retries > 0
    /\ \E i \in 1..LastAccepted : log[i] = Timeout

----------------------------------------------------------------------------
(* C11: in an upload by oack_implementation.send_file, the Data packet     *)
(* sent after a timeout or after a mismatched Acknowledgment is the last   *)
(* Data packet sent over again: same block number, same payload, and the   *)
(* read position in the source has not moved.                              *)

\* the last Data packet in a log that holds one
LastDataSent(l) ==
    LET at == {i \in 1..Len(l) : IsTx(l[i], OPCODE_DATA)}
    IN  l[CHOOSE i \in at : \A j \in at : i >= j].pkt

\* this step is a retry of an upload: recvfrom timed out or returned an
\* Acknowledgment for another block, and a Data packet went out
IsUploadRetry ==
    /\ op = "upload" /\ pc = "Transferring"
    /\ Len(log') > Len(log) + 1
    /\ \/ log'[Len(log) + 1] = Timeout
       \/ /\ IsRx(log'[Len(log) + 1], OPCODE_ACK)
          /\ log'[Len(log) + 1].pkt.size = 4
          /\ log'[Len(log) + 1].pkt.block # block_number
    /\ IsTx(log'[Len(log')], OPCODE_DATA)

C11_RetrySendsSamePacket ==
    [][ (impl = "oack_implementation" /\ IsUploadRetry) =>
            /\ LastDataSent(log').block = LastDataSent(log).block
            /\ LastDataSent(log').id = LastDataSent(log).id
            /\ LastDataSent(log').len = LastDataSent(log).len
            /\ srcPos' = srcPos ]_vars

(* C11, the part the code satisfies: a retry keeps the block number *)
C11_RetryKeepsBlockNumber ==
    [][ (impl = "oack_implementation" /\ IsUploadRetry) =>
            /\ LastDataSent(log').block = LastDataSent(log).block
            /\ block_number' = block_number ]_vars

----------------------------------------------------------------------------
(* C13: in an upload by tftp_client.py's send_file, an Acknowledgment for  *)
(* another block than the current one advances nothing: the block number   *)
(* and the read position stay, and the next Data packet sent is the        *)
(* current one again.                                                      *)
C13_MismatchedAckKeepsBlock ==
    [][ ( /\ impl = "tftp_client" /\ op = "upload" /\ pc = "Transferring"
          /\ Len(log') > Len(log)
          /\ IsRx(log'[Len(log) + 1], OPCODE_ACK)
          /\ log'[Len(log) + 1].pkt.size = 4
          /\ log'[Len(log) + 1].pkt.block # block_number )
        => /\ block_number' = block_number
           /\ srcPos' = srcPos
           /\ LastDataSent(log').block = LastDataSent(log).block
           /\ LastDataSent(log').id = LastDataSent(log).id
           /\ LastDataSent(log').len = LastDataSent(log).len ]_vars

----------------------------------------------------------------------------
(* C14: when the first response is an OACK carrying blksize=B with         *)
(* 1 <= B <= 65464, client_operations uses B as the blocksize of the rest   *)
(* of the transfer whatever it requested: a download takes a Data block    *)
(* as final exactly when its payload is shorter than B, an upload sends    *)
(* chunks of at most B bytes and stops on a chunk shorter than B.          *)

\* the first recvfrom of the session returned an OACK
GotOackFirst ==
    /\ FirstResponse > 0
    /\ RxEvents[1] = log[FirstResponse]
    /\ IsRx(log[FirstResponse], OPCODE_OACK)

\* ... and its only option is blksize
OackFirst ==
    /\ GotOackFirst
    /\ Len(log[FirstResponse].pkt.opts) = 2
    /\ log[FirstResponse].pkt.opts[1] = KeyBlksize

\* the blksize value of that OACK
OackB == log[FirstResponse].pkt.opts[2].num

\* log[i] is a Data packet the download accepted: its Acknowledgment follows
IsAcceptedAt(i) ==
    /\ i < Len(log)
    /\ IsRx(log[i], OPCODE_DATA)
    /\ IsTx(log[i + 1], OPCODE_ACK)
    /\ log[i + 1].pkt.block = log[i].pkt.block

C14_EffectiveBlocksize ==
    ( /\ impl = "client_operations"
      /\ pc \in {"Transferring", "Complete", "Aborted"}
      /\ OackFirst /\ OackB \in 1..RFC2348_MAX ) =>
        /\ blocksize = OackB
        /\ op = "download" =>
              /\ \A i \in 1..Len(log) :
                    IsAcceptedAt(i) =>
                        (log[i].pkt.len < OackB <=> (pc = "Complete" /\ i + 1 = Len(log)))
              /\ pc = "Complete" => IsAcceptedAt(Len(log) - 1)
        /\ op = "upload" =>
              /\ \A i \in 1..Len(log) :
                    IsTx(log[i], OPCODE_DATA) =>
                        /\ log[i].pkt.len = Min(OackB, srcSize - log[i].pkt.id)
                        /\ log[i].pkt.len < OackB => log[i].pkt.block = block_number
              /\ pc = "Complete" => data_block.len < OackB

C14_Reached ==
    /\ impl = "client_operations" /\ op = "download" /\ pc = "Complete"
    /\ OackFirst /\ OackB = 1024
    /\ log[1].pkt.opts = <<KeyBlksize, NumTok(512)>>
    /\ Len(dest.data) = 2 /\ dest.data[1].len = 1024

----------------------------------------------------------------------------
(* C15: when client_operations.handle_oack receives an OACK whose blksize  *)
(* is greater than 65464, the blocksize it returns is exactly 65464 and    *)
(* the negotiation succeeds: ACK 0 is sent and the transfer proceeds.      *)
C15_ClampedTo65464 ==
    ( /\ impl = "client_operations"
      /\ pc \in {"Transferring", "Complete", "Aborted"}
      /\ OackFirst /\ OackB > RFC2348_MAX ) =>
        /\ blocksize = RFC2348_MAX
        /\ log[FirstResponse + 1] = Tx(Ack(0, log[FirstResponse].pkt.addr))
        /\ Len(log) = FirstResponse + 1 => pc = "Transferring"

(* C15, the part the code satisfies: the negotiation succeeds *)
C15_NegotiationSucceeds ==
    ( /\ impl = "client_operations"
      /\ pc \in {"Transferring", "Complete", "Aborted"}
      /\ OackFirst /\ OackB > RFC2348_MAX ) =>
        /\ log[FirstResponse + 1] = Tx(Ack(0, log[FirstResponse].pkt.addr))
        /\ Len(log) = FirstResponse + 1 => pc = "Transferring"

----------------------------------------------------------------------------
(* C16: in every reachable state the effective blocksize lies in 1..65464, *)
(* whatever blksize value the server puts in an OACK.                      *)
C16_BlocksizeInRange == blocksize \in 1..RFC2348_MAX

(* C16, the part oack_implementation satisfies: the upper limit *)
C16_OackUpperLimit == impl = "oack_implementation" => blocksize <= RFC2348_MAX

----------------------------------------------------------------------------
(* C17: when the first response is an OACK, the client sends an            *)
(* Acknowledgment for block 0 to the sender of the OACK before it sends    *)
(* any Data packet and before it accepts or acknowledges any Data block.   *)
(* The first response is what the first recvfrom after the request         *)
(* returns; a recvfrom that timed out returned no response.                *)
C17_AckZeroFirst ==
    GotOackFirst =>
        LET sentAfter == {j \in (FirstResponse + 1)..Len(log) : log[j].ev = "tx"}
        IN  /\ sentAfter # {} =>
                  log[FirstResponse + 1] = Tx(Ack(0, log[FirstResponse].pkt.addr))
            /\ (pc \in {"Transferring", "Complete"} \/ written # <<>>) => sentAfter # {}

C17_Reached ==
    /\ op = "upload" /\ pc = "Transferring"
    /\ GotOackFirst
    /\ blocksize = 1024 /\ block_number = 2
    /\ IsTx(log[Len(log)], OPCODE_DATA)

----------------------------------------------------------------------------
(* C19: transfers run one after another by oack_implementation.tftp_client *)
(* are independent: each one starts with the default blocksize 512 and     *)
(* puts blksize 512 in its request, whatever an earlier transfer           *)
(* negotiated.                                                             *)
C19_TransfersIndependent ==
    impl = "oack_implementation" =>
        /\ pc = "Idle" => blocksize = BLOCK_SIZE
        /\ log # <<>> => log[1].pkt.opts = <<KeyBlksize, NumTok(BLOCK_SIZE)>>

----------------------------------------------------------------------------
(* C21: when the first response is neither an OACK nor an Error (ACK 0 or  *)
(* a Data block), the effective blocksize of the session is the blocksize  *)
(* the caller put in the request (512 when it put none) and the transfer   *)
(* size is unknown.                                                        *)

\* the blksize option of the request that opened the session
RequestedBlocksize ==
    IF Len(log[1].pkt.opts) >= 2 /\ log[1].pkt.opts[1] = KeyBlksize
    THEN log[1].pkt.opts[2].num
    ELSE BLOCK_SIZE

\* the first recvfrom of the session returned an ACK or a Data packet
GotPlainFirst ==
    /\ impl = "client_operations"
    /\ pc \in {"Transferring", "Complete", "Aborted"}
    /\ RxEvents[1].ev = "rx"
    /\ RxEvents[1].pkt.size >= 4
    /\ RxEvents[1].pkt.opcode \in {OPCODE_ACK, OPCODE_DATA}

C21_FallbackToRequested ==
    GotPlainFirst => (blocksize = RequestedBlocksize /\ tsize = NoneVal)

(* C21, what the code does: it falls back to 512, not to the request *)
C21_FallbackToDefault ==
    GotPlainFirst => (blocksize = BLOCK_SIZE /\ tsize = NoneVal)

----------------------------------------------------------------------------
(* C22: when the wait for the first response times out, the session ends   *)
(* in Aborted without entering Transferring: nothing is sent after the     *)
(* timeout, no Data packet and no second request.                          *)
C22_NegotiationTimeoutEnds ==
    (op # "none" /\ RxEvents # <<>> /\ RxEvents[1] = Timeout) =>
        /\ pc = "Aborted"
        /\ log[Len(log)] = Timeout
        /\ Len(RxEvents) = 1

(* C22, the part the code satisfies: the upload of oack_implementation *)
C22_OackUpload ==
    (impl = "oack_implementation" /\ op = "upload") => C22_NegotiationTimeoutEnds

----------------------------------------------------------------------------
(* C26: in a download every Acknowledgment with a block number k >= 1 that *)
(* the client sends answers a Data block k whose payload was written       *)
(* before, and carries that block's number; no block is acknowledged       *)
(* without having been written.                                            *)

\* the block numbers of the Acknowledgments sent for Data blocks, in order
AckedBlocks ==
    LET acks == SelectSeq(log, LAMBDA e : IsTx(e, OPCODE_ACK) /\ e.pkt.block >= 1)
    IN  [i \in 1..Len(acks) |-> acks[i].pkt.block]

C26_AcksOnlyWritten ==
    op = "download" =>
        /\ AckedBlocks = written
        /\ \A i \in 1..Len(log) :
              (IsTx(log[i], OPCODE_ACK) /\ log[i].pkt.block >= 1) =>
                  /\ i > 1
                  /\ IsRx(log[i - 1], OPCODE_DATA)
                  /\ log[i - 1].pkt.block = log[i].pkt.block

C26_Reached ==
    /\ op = "download" /\ pc = "Complete"
    /\ written = <<1, 2>> /\ AckedBlocks = <<1, 2>>

----------------------------------------------------------------------------
(* C27: once a download has accepted a Data block, a timeout never makes   *)
(* the client send the read request again.                                 *)
C27_NoRequestAfterAccept ==
    op = "download" =>
        \A i \in 1..Len(log) :
            (IsTx(log[i], OPCODE_ACK) /\ log[i].pkt.block >= 1) =>
                \A j \in (i + 1)..Len(log) : ~IsTx(log[j], OPCODE_RRQ)

----------------------------------------------------------------------------
(* C23: the block number of a transfer wraps modulo 65536: when block      *)
(* 65535 has been accepted (download) or acknowledged (upload) and the     *)
(* transfer is not over, the next block number is 0 and the transfer goes  *)
(* on.                                                                     *)

\* this step accepts a full Data block (download) or takes the
\* Acknowledgment of a full Data block (upload)
AdvancesBlock ==
    /\ pc = "Transferring"
    /\ Len(log') > Len(log)
    /\ \/ /\ op = "download"
          /\ Len(written') > Len(written)
          /\ log'[Len(log) + 1].pkt.len = blocksize
       \/ /\ op = "upload"
          /\ IsRx(log'[Len(log) + 1], OPCODE_ACK)
          /\ log'[Len(log) + 1].pkt.size = 4
          /\ log'[Len(log) + 1].pkt.block = block_number
          /\ data_block.len = blocksize

C23_BlockNumberWraps ==
    [][ (impl = "client_operations" /\ block_number = MaxBlockNumber /\ AdvancesBlock) =>
            (pc' = "Transferring" /\ block_number' = 0) ]_vars

----------------------------------------------------------------------------
(* C24: the request send_request builds carries a blksize option exactly   *)
(* when a non-zero blocksize is given, and a tsize option exactly when the *)
(* request is a write request and a non-zero file size is given; a read    *)
(* request never carries tsize, a zero or absent value gives no option.    *)

\* the option key k is in the request's option list, followed by value v
CarriesOption(opts, k, v) ==
    \E i \in 1..(Len(opts) - 1) : i % 2 = 1 /\ opts[i] = k /\ opts[i + 1] = NumTok(v)

HasOption(opts, k) == \E i \in 1..Len(opts) : opts[i] = k

C24_RequestOptions ==
    (pc = "AwaitingNegotiation" /\ Len(log) = 1) =>
        LET opts == log[1].pkt.opts
        IN  /\ HasOption(opts, KeyBlksize) <=> Truthy(blocksize)
            /\ Truthy(blocksize) => CarriesOption(opts, KeyBlksize, blocksize)
            /\ HasOption(opts, KeyTsize) <=> (op = "upload" /\ Truthy(tsize))
            /\ (op = "upload" /\ Truthy(tsize)) => CarriesOption(opts, KeyTsize, tsize)

(* C24 as client_operations.send_request satisfies it *)
C24_ClientOperations == impl = "client_operations" => C24_RequestOptions

----------------------------------------------------------------------------
(* C25: every session reaches Complete or Aborted whatever the server and  *)
(* the network do, an endless stream of duplicate, mismatched or           *)
(* unexpected packets included.  For that, every return of recvfrom has to *)
(* bring the session nearer to its end: it ends the session, advances the  *)
(* block number, or uses up one of the MAX_RETRIES retries.  A datagram    *)
(* that does none of these can be sent again and again.                    *)
C25_EveryReceiveCounts ==
    [][ ( /\ impl = "client_operations"
          /\ pc \in {"AwaitingNegotiation", "Transferring"}
          /\ Len(log') > Len(log) )
        => \/ pc' # pc
           \/ block_number' # block_number
           \/ retries' > retries ]_vars

(* C25, the part the code satisfies: timeouts alone end the session,       *)
(* each one counts.                                                        *)
C25_TimeoutsCount ==
    [][ ( /\ impl = "client_operations"
          /\ pc = "Transferring"
          /\ Len(log') > Len(log)
          /\ log'[Len(log) + 1] = Timeout )
        => (pc' = "Aborted" \/ retries' = retries + 1) ]_vars

----------------------------------------------------------------------------
(* C28: client_operations.handle_oack tolerates an OACK whose options      *)
(* split into an odd number of non-empty tokens (a key without a value):   *)
(* the complete pairs are applied, ACK 0 is sent and the transfer          *)
(* proceeds.                                                               *)

\* the first recvfrom returned an OACK with an odd number of tokens
GotOddOack ==
    /\ impl = "client_operations"
    /\ pc \in {"Transferring", "Complete", "Aborted"}
    /\ GotOackFirst
    /\ Len(log[FirstResponse].pkt.opts) % 2 = 1

\* the tokens of that OACK without the last one
CompletePairs ==
    SubSeq(log[FirstResponse].pkt.opts, 1, Len(log[FirstResponse].pkt.opts) - 1)

C28_OddTokensTolerated ==
    GotOddOack =>
        /\ Len(log) > FirstResponse
        /\ log[FirstResponse + 1] = Tx(Ack(0, log[FirstResponse].pkt.addr))
        /\ blocksize = ParseOptions(CompletePairs, 1, BLOCK_SIZE, NoneVal).blocksize
        /\ Len(log) = FirstResponse + 1 => pc = "Transferring"

(* C28, the part the code satisfies: a last key that is neither blksize    *)
(* nor tsize is passed over                                                *)
C28_UnknownKeyTolerated ==
    ( /\ GotOddOack
      /\ Lower(log[FirstResponse].pkt.opts[Len(log[FirstResponse].pkt.opts)].txt)
            \notin {"blksize", "tsize"} ) => C28_OddTokensTolerated

----------------------------------------------------------------------------
(* C29: a received packet that cannot be decoded, with fewer than 2 bytes  *)
(* or with an opcode outside 1..6, aborts the transfer: the session is in  *)
(* Aborted on that packet and receives nothing after it.                   *)

IsUndecodable(e) ==
    /\ e.ev = "rx"
    /\ \/ e.pkt.size < 2
       \/ e.pkt.opcode \notin OPCODE_RRQ..OPCODE_OACK

C29_UndecodableAborts ==
    impl = "client_operations" =>
        \A i \in 1..Len(log) :
            IsUndecodable(log[i]) => (pc = "Aborted" /\ i = Len(log))

(* C29, the part the code satisfies: a datagram too short to hold an       *)
(* opcode aborts the transfer                                              *)
C29_TooShortAborts ==
    impl = "client_operations" =>
        \A i \in 1..Len(log) :
            (log[i].ev = "rx" /\ log[i].pkt.size < 2) => (pc = "Aborted" /\ i = Len(log))

----------------------------------------------------------------------------
(* C30: when several operations run one after another, a packet of an      *)
(* earlier operation (a delayed or duplicated Data, Acknowledgment or      *)
(* OACK) is never accepted by a later operation.                           *)

\* log[i] is an Acknowledgment the upload accepted: the next chunk follows,
\* or the upload is complete on it
IsAcceptedAckAt(i) ==
    /\ op = "upload"
    /\ IsRx(log[i], OPCODE_ACK)
    /\ \/ /\ i < Len(log)
          /\ IsTx(log[i + 1], OPCODE_DATA)
          /\ log[i + 1].pkt.block = log[i].pkt.block + 1
       \/ i = Len(log) /\ pc = "Complete"

\* log[i] is an OACK the negotiation accepted: ACK 0 follows
IsAcceptedOackAt(i) ==
    /\ i < Len(log)
    /\ IsRx(log[i], OPCODE_OACK)
    /\ IsTx(log[i + 1], OPCODE_ACK)
    /\ log[i + 1].pkt.block = 0

IsFromEarlier(e) == e.ev = "rx" /\ e.pkt.addr = EarlierTid

C30_NoEarlierPacketAccepted ==
    impl = "client_operations" =>
        \A i \in 1..Len(log) :
            IsFromEarlier(log[i]) =>
                ~(IsAcceptedAt(i) \/ IsAcceptedAckAt(i) \/ IsAcceptedOackAt(i))

----------------------------------------------------------------------------
(* C31: when client_operations.send_file reports success, every Data       *)
(* packet it sent with block number k carried the k-th blocksize-sized     *)
(* chunk of the source, and for every k from 1 to the terminal block an    *)
(* Acknowledgment k was received before Data block k + 1 was first sent,   *)
(* whatever timeouts, mismatched Acknowledgments and retransmissions lie   *)
(* in between.                                                             *)

UploadSucceeded == impl = "client_operations" /\ op = "upload" /\ pc = "Complete"

\* the Data packet carries the k-th chunk of the source, k its block number
CarriesOwnChunk(p) ==
    /\ p.id = (p.block - 1) * blocksize
    /\ p.len = Min(blocksize, srcSize - p.id)

\* an Acknowledgment k is in the log before every Data block k + 1
AckedBeforeNext(k) ==
    \E i \in 1..Len(log) :
        /\ IsRx(log[i], OPCODE_ACK)
        /\ log[i].pkt.block = k
        /\ \A j \in 1..Len(log) :
              (IsTx(log[j], OPCODE_DATA) /\ log[j].pkt.block = k + 1) => i < j

C31_UploadInOrder ==
    UploadSucceeded =>
        /\ \A i \in 1..Len(log) : IsTx(log[i], OPCODE_DATA) => CarriesOwnChunk(log[i].pkt)
        /\ \A k \in 1..block_number : AckedBeforeNext(k)
        /\ \A k \in 1..block_number : \E i \in 1..Len(log) :
              IsTx(log[i], OPCODE_DATA) /\ log[i].pkt.block = k

\* a successful upload of three blocks with a timeout, a retransmission and
\* a mismatched Acknowledgment on the way
C31_Reached ==
    /\ UploadSucceeded
    /\ block_number = 3
    /\ \E i \in 1..Len(log) : log[i] = Timeout
    /\ \E i \in 2..Len(log) :
          /\ IsRx(log[i], OPCODE_ACK)
          /\ i < Len(log)
          /\ log[i + 1].ev # "tx"

----------------------------------------------------------------------------
(* C32: in a download by oack_implementation.receive_file the effective    *)
(* blocksize does not change once the first Data block has been accepted:  *)
(* an OACK that arrives later in the transfer does not alter the size used *)
(* for final-block detection.                                              *)

FirstBlockAccepted ==
    /\ impl = "oack_implementation" /\ op = "download"
    /\ pc = "Transferring"
    /\ block_number > 1

C32_BlocksizeFrozen == [][FirstBlockAccepted => blocksize' = blocksize]_vars

(* C32, the part the code satisfies: only an OACK changes the blocksize of *)
(* a download under way                                                    *)
C32_OnlyOackChanges ==
    [][(FirstBlockAccepted /\ blocksize' # blocksize) =>
          IsRx(log'[Len(log')  - 1], OPCODE_OACK)]_vars

----------------------------------------------------------------------------
(* C33: an upload by oack_implementation.send_file advances to the next    *)
(* block, or reports success, only on receiving an Acknowledgment (opcode  *)
(* 4) with the current block number; an Error or Data packet whose second  *)
(* 16-bit field equals the current block number is not taken for it.       *)

OackUploadUnderWay ==
    /\ impl = "oack_implementation" /\ op = "upload"
    /\ pc = "Transferring"

OackUploadMovesOn == block_number' = block_number + 1 \/ pc' = "Complete"

C33_AdvancesOnAckOnly ==
    [][(OackUploadUnderWay /\ OackUploadMovesOn) =>
          /\ Len(log') > Len(log)
          /\ IsRx(log'[Len(log) + 1], OPCODE_ACK)
          /\ log'[Len(log) + 1].pkt.block = block_number]_vars

(* C33, the part the code satisfies: the block number of the packet that   *)
(* moves the upload on is the current one                                  *)
C33_AdvancesOnBlockNumber ==
    [][(OackUploadUnderWay /\ OackUploadMovesOn) =>
          /\ Len(log') > Len(log)
          /\ log'[Len(log) + 1].ev = "rx"
          /\ log'[Len(log) + 1].pkt.block = block_number]_vars

====
